---- MODULE Spec2Model ----
(***************************************************************************)
(* Model of TokenLauncherWithBuyTool.execute                                *)
(* (src/src/bonk_mcp/tools/token_launcher.py).                              *)
(*                                                                         *)
(* One invocation of execute() is a small sequential process.  Everything  *)
(* from the argument reads to the generation of the mint keypair (lines    *)
(* 110-158) runs without an await and is one step; after that every await  *)
(* of a collaborator is one step.  The collaborators are external: each    *)
(* step draws the collaborator's outcome (a value, a falsy value or a      *)
(* raised Exception) nondeterministically.                                 *)
(*                                                                         *)
(* Python values are tagged records, so that "missing key", None, "", " ", *)
(* 0 and a malformed string stay different inputs.  A string is a sequence *)
(* of one-character strings.  Whole numbers stand for Python floats.       *)
(***************************************************************************)
EXTENDS Integers, Sequences, FiniteSets, TLC

(***************************************************************************)
(* Bounds of the model.                                                    *)
(***************************************************************************)
MaxInvocations == 2   \* invocation slots of the shared tool instance
MaxAmount == 2        \* numeric inputs range over -1 .. MaxAmount
MaxMsgs == 1          \* distinct exception messages a collaborator may raise

Invocations == 1 .. MaxInvocations

(***************************************************************************)
(* Python values.                                                          *)
(***************************************************************************)
Absent == [t |-> "absent"]            \* the key is not in the dict
NoneV == [t |-> "none"]
Str(s) == [t |-> "str", s |-> s]
Num(n) == [t |-> "num", n |-> n]
Bool(b) == [t |-> "bool", b |-> b]
Unset == [t |-> "unset"]              \* a local not assigned yet
NoV == [t |-> "lit"]                  \* a report line without interpolation

\* Python truthiness of a value (the operand of `not x` and of `x or 0`)
Truthy(v) ==
    CASE v.t = "absent" -> FALSE
      [] v.t = "none" -> FALSE
      [] v.t = "str" -> v.s # << >>
      [] v.t = "num" -> v.n # 0
      [] v.t = "bool" -> v.b
      [] OTHER -> TRUE

\* arguments.get(key, default)
Get(a, key, default) == IF a[key] = Absent THEN default ELSE a[key]

(***************************************************************************)
(* float(): a number is itself; a string is stripped of white space and    *)
(* must then be an optionally signed, non-empty run of digits; anything    *)
(* else raises ValueError.                                                 *)
(***************************************************************************)
Digits == <<"0", "1", "2", "3">>
DigitChars == {Digits[k] : k \in 1 .. Len(Digits)}
DigitVal(c) == (CHOOSE k \in 1 .. Len(Digits) : Digits[k] = c) - 1

RECURSIVE LStrip(_)
LStrip(s) == IF s # << >> /\ Head(s) = " " THEN LStrip(Tail(s)) ELSE s

RECURSIVE RStrip(_)
RStrip(s) ==
    IF s # << >> /\ s[Len(s)] = " " THEN RStrip(SubSeq(s, 1, Len(s) - 1)) ELSE s

Strip(s) == RStrip(LStrip(s))

RECURSIVE DigitsValue(_, _)
DigitsValue(s, acc) ==
    IF s = << >> THEN acc ELSE DigitsValue(Tail(s), 10 * acc + DigitVal(Head(s)))

AllDigits(s) == s # << >> /\ \A k \in 1 .. Len(s) : s[k] \in DigitChars

\* the message of an exception: raised by Python or a library, or by a collaborator
BuiltinMsg(text) == [t |-> "builtin", text |-> text]
Msg(k) == [t |-> "msg", id |-> k]
Msgs == {Msg(k) : k \in 1 .. MaxMsgs}

Raised(kind, msg) == [ok |-> FALSE, exc |-> [kind |-> kind, msg |-> msg]]
Value(n) == [ok |-> TRUE, n |-> n]

ParseFloat(s) ==
    LET b == Strip(s)
        neg == b # << >> /\ Head(b) = "-"
        body == IF b # << >> /\ Head(b) \in {"-", "+"} THEN Tail(b) ELSE b
    IN  IF AllDigits(body)
        THEN Value(IF neg THEN 0 - DigitsValue(body, 0) ELSE DigitsValue(body, 0))
        ELSE Raised("ValueError", BuiltinMsg("could not convert string to float"))

Float(v) ==
    CASE v.t = "num" -> Value(v.n)
      [] v.t = "str" -> ParseFloat(v.s)
      [] OTHER -> Raised("TypeError", BuiltinMsg("float() argument must be a string or a real number"))

\* float(arguments.get(key, 0) or 0)
CoerceAmount(a, key) ==
    LET g == Get(a, key, Num(0))
    IN  Float(IF Truthy(g) THEN g ELSE Num(0))

MissingRequiredNameOnly(a) == ~Truthy(Get(a, "name", NoneV))

\* line 122: not name or not symbol or not description or not image_url
MissingRequired(a) ==
    \/ ~Truthy(Get(a, "name", NoneV))
    \/ ~Truthy(Get(a, "symbol", NoneV))
    \/ ~Truthy(Get(a, "description", NoneV))
    \/ ~Truthy(Get(a, "image_url", NoneV))

(***************************************************************************)
(* The funding identity.  base58.b58decode raises on a character outside   *)
(* the alphabet ("0" is not a base58 digit); Keypair.from_bytes raises     *)
(* unless the bytes are a well-formed keypair.                             *)
(***************************************************************************)
B58Alphabet == {"1", "k"}
WellFormedKeys == {<<"k", "k">>}

\* line 134: not KEYPAIR
KeypairConfigured(k) == Truthy(k)

B58Decode(k) ==
    IF \A j \in 1 .. Len(k.s) : k.s[j] \in B58Alphabet
    THEN [ok |-> TRUE, bytes |-> k.s]
    ELSE Raised("ValueError", BuiltinMsg("Invalid character"))

FromBytes(b) ==
    IF b \in WellFormedKeys
    THEN [ok |-> TRUE, keypair |-> [t |-> "keypair", secret |-> b]]
    ELSE Raised("ValueError", BuiltinMsg("signature error"))

\* lines 147-148
DecodeKeypair(k) ==
    LET d == B58Decode(k)
    IN  IF d.ok THEN FromBytes(d.bytes) ELSE d

\* Keypair.pubkey()
Pubkey(kp) == [t |-> "pubkey", of |-> kp]

FreshKeypairConstant(n) == [t |-> "keypair", fresh |-> 1]
FreshKeypairFromInput(n) == Str(<<"F">>)

\* line 158, Keypair(): the n-th keypair drawn from the system's entropy source
FreshKeypair(n) == [t |-> "keypair", fresh |-> n]

UriResolvedIfNotNone(u) == u # NoneV

\* line 178: not uri
UriResolved(u) == Truthy(u)

CreationConfirmedUnchecked(v) == TRUE
CreationConfirmedIfNotFalse(v) == v # Bool(FALSE)

\* line 206: not create_success
CreationConfirmed(v) == Truthy(v)

BuyRequestedIfNonZero(amount) == amount # 0
BuyRequestedAboveOne(amount) == amount > 1
BuyRequestedIfNotNegative(amount) == amount >= 0

\* line 228: initial_buy_amount > 0
BuyRequested(amount) == amount > 0

\* line 239: if buy_success
BuyConfirmed(v) == Truthy(v)

(***************************************************************************)
(* Report lines: the format string and the value interpolated at {}.       *)
(***************************************************************************)
Line(p, v) == [p |-> p, v |-> v]

ErrMissingParams ==
    Line("Error: Missing required parameters. Please provide name, symbol, description, and image_url.", NoV)
ErrNoKeypair ==
    Line("Error: No keypair configured in settings. Please set the KEYPAIR environment variable.", NoV)
ErrInvalidKeypairNoDetail(e) == Line("Error: Invalid keypair format.", NoV)
ErrInvalidKeypair(e) == Line("Error: Invalid keypair format. {}", e.msg)
ErrIpfsRaised(e) == Line("Error: Failed to prepare IPFS metadata. {}", e.msg)
ErrIpfsEmpty ==
    Line("Error: Failed to prepare IPFS metadata. Please check your image URL and try again.", NoV)
ErrLaunch(e) == Line("Error launching token: {}", e.msg)
ErrCreationFailed == Line("Error: Token creation failed.", NoV)
Blank == Line("", NoV)

LaunchLinesUriLast(name, symbol, mint, pdas, u, image_url, payer) ==
    << Line("Successfully launched token: {} ({})", [t |-> "name_symbol", name |-> name, symbol |-> symbol]),
       Blank,
       Line("Mint Address: {}", Pubkey(mint)),
       Line("Pool State: {}", pdas.pool_state),
       Line("Image URL: {}", image_url),
       Line("Token URI: {}", u),
       Blank,
       Line("Funded from account: {}", Pubkey(payer)) >>

\* lines 216-225; the header interpolates name and symbol
LaunchLines(name, symbol, mint, pdas, u, image_url, payer) ==
    << Line("Successfully launched token: {} ({})", [t |-> "name_symbol", name |-> name, symbol |-> symbol]),
       Blank,
       Line("Mint Address: {}", Pubkey(mint)),
       Line("Pool State: {}", pdas.pool_state),
       Line("Token URI: {}", u),
       Line("Image URL: {}", image_url),
       Blank,
       Line("Funded from account: {}", Pubkey(payer)) >>

BuySucceededLine(amount) == Line("Initial buy succeeded: spent {} SOL", Num(amount))
BuyFailedLine == Line("Token launched, but initial buy failed.", NoV)
BuyFailedExcLineNoDetail(e) == Line("Token launched, but initial buy failed.", NoV)
BuyFailedExcLine(e) == Line("Token launched, but initial buy failed: {}", e.msg)

AppendBuyStatusReplacing(lines, status) == <<Blank, status>>

\* response_lines.append(""); response_lines.append(status)
AppendBuyStatus(lines, status) == lines \o <<Blank, status>>

\* [TextContent(type="text", text=...)]: one text item, a sequence of lines
TextItems(lines) == << [type |-> "text", text |-> lines] >>

(***************************************************************************)
(* State.                                                                  *)
(***************************************************************************)
VARIABLES
    KEYPAIR,             \* bonk_mcp.settings.KEYPAIR, read-only process-wide configuration
    keysGenerated,       \* number of keypairs Keypair() has generated so far
    arguments,           \* arguments[i]: the dict passed to invocation i
    pc,                  \* pc[i]: the await invocation i is suspended at, "done", or "off"
    initial_buy_amount,  \* locals of invocation i
    minimum_token_out,
    payer_keypair,
    mint_keypair,
    uri,
    create_txn,
    create_success,
    pdas,
    buy_txn,
    buy_success,
    response_lines,
    outcome,             \* outcome[i]: "none", "returned" or "raised"
    result,              \* result[i]: the returned list of text items
    caught,              \* caught[i]: the exception an `except Exception as e` of invocation i bound
    raised,              \* raised[i]: the exception that left execute() and where it came from
    calls                \* calls[i]: the collaborator calls invocation i has made, in order

locals == <<initial_buy_amount, minimum_token_out, payer_keypair, mint_keypair,
            uri, create_txn, create_success, pdas, buy_txn, buy_success, response_lines>>
ends == <<outcome, result, raised>>
vars == <<KEYPAIR, keysGenerated, arguments, pc, locals, caught, ends, calls>>

(***************************************************************************)
(* Inputs.                                                                 *)
(***************************************************************************)
NameVals == {Absent, NoneV, Str(<< >>), Str(<<" ">>), Str(<<"F">>)}
FieldVals == {Absent, Str(<< >>), Str(<<"x">>)}
AmountVals ==
    {Absent, NoneV, Str(<< >>), Str(<<"a">>), Str(<<"2">>)} \cup {Num(n) : n \in -1 .. MaxAmount}
MinOutVals == {Absent, Str(<<"a">>)} \cup {Num(n) : n \in -1 .. 1}
KeypairVals == {NoneV, Str(<< >>), Str(<<"0">>), Str(<<"k">>), Str(<<"k", "k">>)}

ArgumentDicts ==
    [name : NameVals, symbol : FieldVals, description : FieldVals, image_url : FieldVals,
     initial_buy_amount : AmountVals, minimum_token_out : MinOutVals]

NoArguments ==
    [name |-> Absent, symbol |-> Absent, description |-> Absent, image_url |-> Absent,
     initial_buy_amount |-> Absent, minimum_token_out |-> Absent]

\* what the collaborators may hand back
Exceptions == {[kind |-> "Exception", msg |-> m] : m \in Msgs}
UriResults == {Str(<<"u">>), Str(<< >>), NoneV}
ConfirmResults == {Bool(TRUE), Bool(FALSE), NoneV}

NoException == [from |-> "", exc |-> Unset]

\* one invocation of the tool is under way; the other slots are not in use
Init ==
    /\ KEYPAIR \in KeypairVals
    /\ keysGenerated = 0
    /\ \E a \in ArgumentDicts :
          arguments = [i \in Invocations |-> IF i = 1 THEN a ELSE NoArguments]
    /\ pc = [i \in Invocations |-> IF i = 1 THEN "start" ELSE "off"]
    /\ initial_buy_amount = [i \in Invocations |-> Unset]
    /\ minimum_token_out = [i \in Invocations |-> Unset]
    /\ payer_keypair = [i \in Invocations |-> Unset]
    /\ mint_keypair = [i \in Invocations |-> Unset]
    /\ uri = [i \in Invocations |-> Unset]
    /\ create_txn = [i \in Invocations |-> Unset]
    /\ create_success = [i \in Invocations |-> Unset]
    /\ pdas = [i \in Invocations |-> Unset]
    /\ buy_txn = [i \in Invocations |-> Unset]
    /\ buy_success = [i \in Invocations |-> Unset]
    /\ response_lines = [i \in Invocations |-> << >>]
    /\ outcome = [i \in Invocations |-> "none"]
    /\ result = [i \in Invocations |-> << >>]
    /\ caught = [i \in Invocations |-> NoException]
    /\ raised = [i \in Invocations |-> NoException]
    /\ calls = [i \in Invocations |-> << >>]

(***************************************************************************)
(* The two ways execute() ends.                                            *)
(***************************************************************************)
\* return [TextContent(type="text", text=...)]
Return(i, lines) ==
    /\ pc' = [pc EXCEPT ![i] = "done"]
    /\ outcome' = [outcome EXCEPT ![i] = "returned"]
    /\ result' = [result EXCEPT ![i] = TextItems(lines)]
    /\ UNCHANGED raised

\* an exception no handler of execute() catches
Propagate(i, from, e) ==
    /\ pc' = [pc EXCEPT ![i] = "done"]
    /\ outcome' = [outcome EXCEPT ![i] = "raised"]
    /\ raised' = [raised EXCEPT ![i] = [from |-> from, exc |-> e]]
    /\ UNCHANGED result

\* except Exception as e
Catch(i, from, e) == caught' = [caught EXCEPT ![i] = [from |-> from, exc |-> e]]

ContinueFromMetadata(i, next) ==
    /\ pc' = [pc EXCEPT ![i] = "prepare_ipfs"]
    /\ UNCHANGED ends

Continue(i, next) ==
    /\ pc' = [pc EXCEPT ![i] = next]
    /\ UNCHANGED ends

\* what a collaborator call came back with
Returned(v) == [ret |-> v]
Threw(e) == [exc |-> e]

\* invocation i awaited collaborator fn with arguments a, and the call came back with r
Call(i, fn, a, r) ==
    calls' = [calls EXCEPT ![i] = Append(@, [fn |-> fn, a |-> a, r |-> r])]

(***************************************************************************)
(* Lines 110-158: read and coerce the arguments, validate the required     *)
(* fields, resolve and decode the funding identity, generate the mint      *)
(* keypair.  No await: one step.                                           *)
(***************************************************************************)
Begin(i) ==
    LET a == arguments[i]
        amt == CoerceAmount(a, "initial_buy_amount")
        mo == CoerceAmount(a, "minimum_token_out")
        dec == DecodeKeypair(KEYPAIR)
        coerced == amt.ok /\ mo.ok
        decoded == coerced /\ ~MissingRequired(a) /\ KeypairConfigured(KEYPAIR) /\ dec.ok
    IN  /\ pc[i] = "start"
        /\ initial_buy_amount' =
              [initial_buy_amount EXCEPT ![i] = IF amt.ok THEN Num(amt.n) ELSE Unset]
        /\ minimum_token_out' =
              [minimum_token_out EXCEPT ![i] = IF coerced THEN Num(mo.n) ELSE Unset]
        /\ payer_keypair' = [payer_keypair EXCEPT ![i] = IF decoded THEN dec.keypair ELSE Unset]
        /\ mint_keypair' =
              [mint_keypair EXCEPT ![i] = IF decoded THEN FreshKeypair(keysGenerated + 1) ELSE Unset]
        /\ keysGenerated' = IF decoded THEN keysGenerated + 1 ELSE keysGenerated
        /\ IF ~amt.ok THEN Propagate(i, "float", amt.exc) /\ UNCHANGED caught
           ELSE IF ~mo.ok THEN Propagate(i, "float", mo.exc) /\ UNCHANGED caught
           ELSE IF MissingRequired(a) THEN Return(i, <<ErrMissingParams>>) /\ UNCHANGED caught
           ELSE IF ~KeypairConfigured(KEYPAIR) THEN Return(i, <<ErrNoKeypair>>) /\ UNCHANGED caught
           ELSE IF ~dec.ok
                THEN Catch(i, "decode", dec.exc) /\ Return(i, <<ErrInvalidKeypair(dec.exc)>>)
           ELSE Continue(i, "prepare_ipfs") /\ UNCHANGED caught
        /\ UNCHANGED <<KEYPAIR, arguments, calls, uri, create_txn, create_success, pdas,
                       buy_txn, buy_success, response_lines>>

\* lines 160-184: await prepare_ipfs(...)
PrepareIpfs(i) ==
    LET a == arguments[i]
        fields == [name |-> a.name, symbol |-> a.symbol, description |-> a.description,
                   image_url |-> a.image_url]
    IN  /\ pc[i] = "prepare_ipfs"
        /\ \/ \E u \in UriResults :
                /\ Call(i, "prepare_ipfs", fields, Returned(u))
                /\ uri' = [uri EXCEPT ![i] = u]
                /\ IF UriResolved(u) THEN Continue(i, "create_token")
                   ELSE Return(i, <<ErrIpfsEmpty>>)
                /\ UNCHANGED caught
           \/ \E e \in Exceptions :
                /\ Call(i, "prepare_ipfs", fields, Threw(e))
                /\ Catch(i, "prepare_ipfs", e)
                /\ Return(i, <<ErrIpfsRaised(e)>>)
                /\ UNCHANGED uri
        /\ UNCHANGED <<KEYPAIR, keysGenerated, arguments, initial_buy_amount, minimum_token_out,
                       payer_keypair, mint_keypair, create_txn, create_success, pdas, buy_txn,
                       buy_success, response_lines>>

\* lines 187-194 and 199-205: await create_token(...)
CreateToken(i) ==
    LET a == arguments[i]
        params == [payer_keypair |-> payer_keypair[i], mint_keypair |-> mint_keypair[i],
                   name |-> a.name, symbol |-> a.symbol, uri |-> uri[i]]
        txn == [t |-> "txn", op |-> "create", mint |-> Pubkey(mint_keypair[i])]
    IN  /\ pc[i] = "create_token"
        /\ \/ /\ Call(i, "create_token", params, Returned(txn))
              /\ create_txn' = [create_txn EXCEPT ![i] = txn]
              /\ Continue(i, "send_create")
              /\ UNCHANGED caught
           \/ \E e \in Exceptions :
                /\ Call(i, "create_token", params, Threw(e))
                /\ Catch(i, "create_token", e)
                /\ Return(i, <<ErrLaunch(e)>>)
                /\ UNCHANGED create_txn
        /\ UNCHANGED <<KEYPAIR, keysGenerated, arguments, initial_buy_amount, minimum_token_out,
                       payer_keypair, mint_keypair, uri, create_success, pdas, buy_txn,
                       buy_success, response_lines>>

SendCreateParams(i) ==
    [txn |-> create_txn[i], signers |-> <<payer_keypair[i], mint_keypair[i]>>]

\* lines 195-212: await send_and_confirm_transaction(create_txn, payer_keypair, mint_keypair)
SendCreate(i) ==
    /\ pc[i] = "send_create"
    /\ \/ \E r \in ConfirmResults :
            /\ Call(i, "send_and_confirm_transaction", SendCreateParams(i), Returned(r))
            /\ create_success' = [create_success EXCEPT ![i] = r]
            /\ IF CreationConfirmed(r) THEN Continue(i, "derive_pdas")
               ELSE Return(i, <<ErrCreationFailed>>)
            /\ UNCHANGED caught
       \/ \E e \in Exceptions :
            /\ Call(i, "send_and_confirm_transaction", SendCreateParams(i), Threw(e))
            /\ Catch(i, "send_and_confirm_transaction", e)
            /\ Return(i, <<ErrLaunch(e)>>)
            /\ UNCHANGED create_success
    /\ UNCHANGED <<KEYPAIR, keysGenerated, arguments, initial_buy_amount, minimum_token_out,
                   payer_keypair, mint_keypair, uri, create_txn, pdas, buy_txn,
                   buy_success, response_lines>>

\* lines 214-228 and 255-261: await derive_pdas(...), build response_lines, the buy gate
DerivePdas(i) ==
    LET a == arguments[i]
        d == [t |-> "dict",
              pool_state |-> [t |-> "pda", label |-> "pool_state",
                              mint |-> Pubkey(mint_keypair[i])]]
        lines == LaunchLines(a.name, a.symbol, mint_keypair[i], d, uri[i], a.image_url,
                             payer_keypair[i])
    IN  /\ pc[i] = "derive_pdas"
        /\ \/ /\ Call(i, "derive_pdas", [mint |-> Pubkey(mint_keypair[i])], Returned(d))
              /\ pdas' = [pdas EXCEPT ![i] = d]
              /\ response_lines' = [response_lines EXCEPT ![i] = lines]
              /\ IF BuyRequested(initial_buy_amount[i].n) THEN Continue(i, "create_buy_tx")
                 ELSE Return(i, lines)
           \/ \E e \in Exceptions :
                /\ Call(i, "derive_pdas", [mint |-> Pubkey(mint_keypair[i])], Threw(e))
                /\ Propagate(i, "derive_pdas", e)
                /\ UNCHANGED <<pdas, response_lines>>
        /\ UNCHANGED <<KEYPAIR, keysGenerated, arguments, initial_buy_amount, minimum_token_out,
                       payer_keypair, mint_keypair, uri, create_txn, create_success, buy_txn,
                       buy_success, caught>>

\* lines 229-235 and 249-261: await create_buy_tx(...)
CreateBuyTx(i) ==
    LET params == [payer_keypair |-> payer_keypair[i], mint_pubkey |-> Pubkey(mint_keypair[i]),
                   amount_in |-> initial_buy_amount[i],
                   minimum_amount_out |-> minimum_token_out[i]]
        txn == [t |-> "txn", op |-> "buy", mint |-> Pubkey(mint_keypair[i])]
    IN
    /\ pc[i] = "create_buy_tx"
    /\ \/ /\ Call(i, "create_buy_tx", params, Returned(txn))
          /\ buy_txn' = [buy_txn EXCEPT ![i] = txn]
          /\ Continue(i, "send_buy")
          /\ UNCHANGED <<response_lines, caught>>
       \/ \E e \in Exceptions :
            LET lines == AppendBuyStatus(response_lines[i], BuyFailedExcLine(e))
            IN  /\ Call(i, "create_buy_tx", params, Threw(e))
                /\ Catch(i, "create_buy_tx", e)
                /\ response_lines' = [response_lines EXCEPT ![i] = lines]
                /\ Return(i, lines)
                /\ UNCHANGED buy_txn
    /\ UNCHANGED <<KEYPAIR, keysGenerated, arguments, initial_buy_amount, minimum_token_out,
                   payer_keypair, mint_keypair, uri, create_txn, create_success, pdas,
                   buy_success>>

SendBuyParams(i) == [txn |-> buy_txn[i], signers |-> <<payer_keypair[i]>>]

\* lines 236-261: await send_and_confirm_transaction(buy_txn, payer_keypair, *additional_signers)
SendBuy(i) ==
    /\ pc[i] = "send_buy"
    /\ \/ \E r \in ConfirmResults :
            LET status == IF BuyConfirmed(r) THEN BuySucceededLine(initial_buy_amount[i].n)
                          ELSE BuyFailedLine
                lines == AppendBuyStatus(response_lines[i], status)
            IN  /\ Call(i, "send_and_confirm_transaction", SendBuyParams(i), Returned(r))
                /\ buy_success' = [buy_success EXCEPT ![i] = r]
                /\ UNCHANGED caught
                /\ response_lines' = [response_lines EXCEPT ![i] = lines]
                /\ Return(i, lines)
       \/ \E e \in Exceptions :
            LET lines == AppendBuyStatus(response_lines[i], BuyFailedExcLine(e))
            IN  /\ Call(i, "send_and_confirm_transaction", SendBuyParams(i), Threw(e))
                /\ Catch(i, "send_and_confirm_transaction", e)
                /\ response_lines' = [response_lines EXCEPT ![i] = lines]
                /\ Return(i, lines)
                /\ UNCHANGED buy_success
    /\ UNCHANGED <<KEYPAIR, keysGenerated, arguments, initial_buy_amount, minimum_token_out,
                   payer_keypair, mint_keypair, uri, create_txn, create_success, pdas, buy_txn>>

Next ==
    \E i \in Invocations :
        \/ Begin(i)
        \/ PrepareIpfs(i)
        \/ CreateToken(i)
        \/ SendCreate(i)
        \/ DerivePdas(i)
        \/ CreateBuyTx(i)
        \/ SendBuy(i)

Spec == Init /\ [][Next]_vars

\* every await of execute() comes back: each collaborator call returns or raises
SpecLive == Init /\ [][Next]_vars /\ WF_vars(Next)

(***************************************************************************)
(* Concurrent use of the module-level instance (line 274): every slot holds *)
(* an invocation of execute(), and the event loop interleaves them at their *)
(* awaits.  The inputs are a small set, so that two invocations can have    *)
(* identical fields.                                                       *)
(***************************************************************************)
ConcurrentArgumentDicts ==
    [name : {Str(<<"F">>)}, symbol : {Str(<<"x">>)}, description : {Str(<<"x">>)},
     image_url : {Str(<<"x">>)}, initial_buy_amount : {Absent, Num(1)},
     minimum_token_out : {Absent}]

InitConcurrent ==
    /\ KEYPAIR \in KeypairVals
    /\ keysGenerated = 0
    /\ arguments \in [Invocations -> ConcurrentArgumentDicts]
    /\ pc = [i \in Invocations |-> "start"]
    /\ initial_buy_amount = [i \in Invocations |-> Unset]
    /\ minimum_token_out = [i \in Invocations |-> Unset]
    /\ payer_keypair = [i \in Invocations |-> Unset]
    /\ mint_keypair = [i \in Invocations |-> Unset]
    /\ uri = [i \in Invocations |-> Unset]
    /\ create_txn = [i \in Invocations |-> Unset]
    /\ create_success = [i \in Invocations |-> Unset]
    /\ pdas = [i \in Invocations |-> Unset]
    /\ buy_txn = [i \in Invocations |-> Unset]
    /\ buy_success = [i \in Invocations |-> Unset]
    /\ response_lines = [i \in Invocations |-> << >>]
    /\ outcome = [i \in Invocations |-> "none"]
    /\ result = [i \in Invocations |-> << >>]
    /\ caught = [i \in Invocations |-> NoException]
    /\ raised = [i \in Invocations |-> NoException]
    /\ calls = [i \in Invocations |-> << >>]

SpecConcurrent == InitConcurrent /\ [][Next]_vars

(***************************************************************************)
(* Vocabulary of the properties: what the call history and the returned     *)
(* report of an invocation show.                                           *)
(***************************************************************************)
CallIndices(i) == DOMAIN calls[i]
ThrewIn(c) == "exc" \in DOMAIN c.r
ReturnedTruthy(c) == "ret" \in DOMAIN c.r /\ Truthy(c.r.ret)
CallFailed(c) == ~ReturnedTruthy(c)
IsSend(c, op) == c.fn = "send_and_confirm_transaction" /\ c.a.txn.op = op
IsBuyAttempt(c) == c.fn = "create_buy_tx" \/ IsSend(c, "buy")
BuyMint(c) == IF c.fn = "create_buy_tx" THEN c.a.mint_pubkey ELSE c.a.txn.mint
CallsTo(i, fn) == {k \in CallIndices(i) : calls[i][k].fn = fn}
BuySends(i) == {k \in CallIndices(i) : IsSend(calls[i][k], "buy")}

Phase1Failed(i) ==
    \E k \in CallIndices(i) :
        \/ calls[i][k].fn = "create_token" /\ ThrewIn(calls[i][k])
        \/ IsSend(calls[i][k], "create") /\ CallFailed(calls[i][k])
Phase1Succeeded(i) ==
    \E k \in CallIndices(i) : IsSend(calls[i][k], "create") /\ ReturnedTruthy(calls[i][k])
Phase2Failed(i) ==
    \E k \in CallIndices(i) :
        \/ calls[i][k].fn = "create_buy_tx" /\ ThrewIn(calls[i][k])
        \/ IsSend(calls[i][k], "buy") /\ CallFailed(calls[i][k])
MetadataFailed(i) ==
    \E k \in CallIndices(i) : calls[i][k].fn = "prepare_ipfs" /\ CallFailed(calls[i][k])

RequiredFields == {"name", "symbol", "description", "image_url"}
FieldMissing(a) == \E f \in RequiredFields : a[f] \in {Absent, NoneV, Str(<< >>)}
FalsyAmounts == {Absent, NoneV, Num(0), Str(<< >>)}
Collaborators ==
    {"prepare_ipfs", "create_token", "send_and_confirm_transaction", "derive_pdas",
     "create_buy_tx"}

Finished(i) == pc[i] = "done"
ReturnedOneText(i) ==
    outcome[i] = "returned" /\ Len(result[i]) = 1 /\ result[i][1].type = "text"
Report(i) == result[i][1].text
ErrorFormats ==
    {"Error: Missing required parameters. Please provide name, symbol, description, and image_url.",
     "Error: No keypair configured in settings. Please set the KEYPAIR environment variable.",
     "Error: Invalid keypair format. {}",
     "Error: Failed to prepare IPFS metadata. {}",
     "Error: Failed to prepare IPFS metadata. Please check your image URL and try again.",
     "Error launching token: {}",
     "Error: Token creation failed."}
DetailFormats ==
    <<"Successfully launched token: {} ({})", "", "Mint Address: {}", "Pool State: {}",
      "Token URI: {}", "Image URL: {}", "", "Funded from account: {}">>
DetailFormatSet == {DetailFormats[k] : k \in {1, 3, 4, 5, 6, 8}}
BuyFailureFormats ==
    {"Token launched, but initial buy failed.", "Token launched, but initial buy failed: {}"}
BuyStatusFormats == BuyFailureFormats \cup {"Initial buy succeeded: spent {} SOL"}
SingleErrorLine(i) ==
    ReturnedOneText(i) /\ Len(Report(i)) = 1 /\ Report(i)[1].p \in ErrorFormats

(***************************************************************************)
(* C1.  Whenever Phase 1 has failed (create_token raised, or the creation   *)
(* submission raised or returned a falsy confirmation), the invocation has  *)
(* ended by returning exactly one error line of Phase 1, with none of the   *)
(* success-detail lines, and create_buy_tx has not been called, whatever    *)
(* initial_buy_amount was.                                                 *)
(***************************************************************************)
C1_Phase1FailureAborts ==
    \A i \in Invocations :
        Phase1Failed(i) =>
            /\ Finished(i)
            /\ ReturnedOneText(i)
            /\ Len(Report(i)) = 1
            /\ Report(i)[1].p \in {"Error launching token: {}", "Error: Token creation failed."}
            /\ \A k \in DOMAIN Report(i) : Report(i)[k].p \notin DetailFormatSet
            /\ \A k \in CallIndices(i) : ~IsBuyAttempt(calls[i][k])

C1_Witness ==
    \E i \in Invocations :
        /\ Phase1Failed(i)
        /\ Finished(i)
        /\ initial_buy_amount[i].n > 0
        /\ \E k \in CallIndices(i) : IsSend(calls[i][k], "create") /\ ~ThrewIn(calls[i][k])

(***************************************************************************)
(* C2.  In every reachable state, every buy attempt in the call history     *)
(* (create_buy_tx or the buy submission) belongs to an invocation with      *)
(* initial_buy_amount > 0 and comes after a creation submission, signed by  *)
(* the same mint keypair, that returned a truthy confirmation.              *)
(***************************************************************************)
C2_BuyOnlyAfterConfirmedCreation ==
    \A i \in Invocations : \A k \in CallIndices(i) :
        IsBuyAttempt(calls[i][k]) =>
            /\ initial_buy_amount[i].n > 0
            /\ \E j \in 1 .. (k - 1) :
                  /\ IsSend(calls[i][j], "create")
                  /\ ReturnedTruthy(calls[i][j])
                  /\ calls[i][j].a.txn.mint = BuyMint(calls[i][k])
                  /\ Pubkey(calls[i][j].a.signers[2]) = BuyMint(calls[i][k])

C2_Witness ==
    \E i \in Invocations : \E k \in CallIndices(i) : IsSend(calls[i][k], "buy")

(***************************************************************************)
(* C3.  Every finished invocation whose input lacks one of name, symbol,   *)
(* description, image_url has returned the single missing-parameters error  *)
(* item and called no collaborator, whatever the other fields contain.      *)
(* The code coerces the two amounts before it validates (lines 118-119), so *)
(* a malformed amount raises ValueError first.                              *)
(***************************************************************************)
C3_MissingFieldReturnsError ==
    \A i \in Invocations :
        (Finished(i) /\ FieldMissing(arguments[i])) =>
            /\ SingleErrorLine(i)
            /\ Report(i)[1].p =
                  "Error: Missing required parameters. Please provide name, symbol, description, and image_url."
            /\ calls[i] = << >>

(***************************************************************************)
(* C4.  No collaborator exception propagates to the caller of execute().   *)
(* derive_pdas is awaited outside every try block (line 215).               *)
(***************************************************************************)
C4_NoCollaboratorExceptionPropagates ==
    \A i \in Invocations : ~(outcome[i] = "raised" /\ raised[i].from \in Collaborators)

(***************************************************************************)
(* C5.  Whenever Phase 1 has succeeded and Phase 2 has failed, the          *)
(* invocation has returned (not raised) one report: the eight creation     *)
(* lines with their values, then a blank line and one buy-failure line.     *)
(***************************************************************************)
C5_BuyFailureKeepsCreationReport ==
    \A i \in Invocations :
        (Phase1Succeeded(i) /\ Phase2Failed(i)) =>
            /\ Finished(i)
            /\ ReturnedOneText(i)
            /\ Len(Report(i)) = 10
            /\ \A k \in 1 .. 8 : Report(i)[k].p = DetailFormats[k]
            /\ Report(i)[1].v.name = arguments[i].name
            /\ Report(i)[1].v.symbol = arguments[i].symbol
            /\ Report(i)[3].v = Pubkey(mint_keypair[i])
            /\ Report(i)[4].v = pdas[i].pool_state
            /\ Report(i)[5].v = uri[i]
            /\ Report(i)[6].v = arguments[i].image_url
            /\ Report(i)[8].v = Pubkey(payer_keypair[i])
            /\ Report(i)[9].p = ""
            /\ Report(i)[10].p \in BuyFailureFormats
            /\ Report(i)[1].p \notin ErrorFormats

C5_Witness ==
    \E i \in Invocations :
        /\ Phase1Succeeded(i)
        /\ \E k \in CallIndices(i) : IsSend(calls[i][k], "buy") /\ CallFailed(calls[i][k])
        /\ Finished(i)

(***************************************************************************)
(* C6.  As claimed: every finished invocation whose input has              *)
(* initial_buy_amount > 0 has invoked Phase 2 exactly once, after Phase 1   *)
(* reported success.                                                       *)
(***************************************************************************)
AmountPositive(a) ==
    LET amt == CoerceAmount(a, "initial_buy_amount") IN amt.ok /\ amt.n > 0

C7_NoBuyWithoutAmount ==
    \A i \in Invocations :
        (pc[i] # "off" /\ arguments[i].initial_buy_amount \in FalsyAmounts) =>
            /\ \A k \in CallIndices(i) : ~IsBuyAttempt(calls[i][k])
            /\ ReturnedOneText(i) =>
                  \A k \in DOMAIN Report(i) : Report(i)[k].p \notin BuyStatusFormats

C7_Witness ==
    \E i \in Invocations :
        /\ arguments[i].initial_buy_amount \in {NoneV, Str(<< >>)}
        /\ ReturnedOneText(i)
        /\ Len(Report(i)) = 8
        /\ Report(i)[1].p = DetailFormats[1]

(***************************************************************************)
(* C8.  Whenever KEYPAIR is absent or empty, a finished invocation has      *)
(* returned a single-line error response and has made no collaborator call. *)
(* The coercion of the amounts (lines 118-119) comes before the check of    *)
(* KEYPAIR (line 134) and raises on a malformed amount.                     *)
(***************************************************************************)
C8_NoKeypairSingleError ==
    \A i \in Invocations :
        (Finished(i) /\ KEYPAIR \in {NoneV, Str(<< >>)}) =>
            /\ SingleErrorLine(i)
            /\ calls[i] = << >>

(***************************************************************************)
(* C9.  Whenever metadata preparation has failed (prepare_ipfs raised or    *)
(* returned an empty or falsy URI), the invocation has ended by returning   *)
(* one metadata error line, and prepare_ipfs is the only collaborator call  *)
(* it made: no create_token, send_and_confirm_transaction, derive_pdas or   *)
(* create_buy_tx.                                                          *)
(***************************************************************************)
C9_MetadataFailureAborts ==
    \A i \in Invocations :
        MetadataFailed(i) =>
            /\ Finished(i)
            /\ SingleErrorLine(i)
            /\ Report(i)[1].p \in
                  {"Error: Failed to prepare IPFS metadata. {}",
                   "Error: Failed to prepare IPFS metadata. Please check your image URL and try again."}
            /\ Len(calls[i]) = 1
            /\ \A k \in CallIndices(i) :
                  calls[i][k].fn \notin
                      {"create_token", "send_and_confirm_transaction", "derive_pdas",
                       "create_buy_tx"}

C9_Witness ==
    \E i \in Invocations :
        /\ Finished(i)
        /\ \E k \in CallIndices(i) :
              /\ calls[i][k].fn = "prepare_ipfs"
              /\ ~ThrewIn(calls[i][k])
              /\ calls[i][k].r.ret = Str(<< >>)

CreationLinesInOrder(r, i) ==
    /\ Len(r) >= 8
    /\ \A k \in 1 .. 8 : r[k].p = DetailFormats[k]
    /\ r[1].v = [t |-> "name_symbol", name |-> arguments[i].name, symbol |-> arguments[i].symbol]
    /\ r[2].v = NoV
    /\ r[3].v = Pubkey(mint_keypair[i])
    /\ r[4].v = pdas[i].pool_state
    /\ r[5].v = uri[i]
    /\ r[6].v = arguments[i].image_url
    /\ r[7].v = NoV
    /\ r[8].v = Pubkey(payer_keypair[i])
    /\ \A k \in 9 .. Len(r) : r[k].p \notin DetailFormatSet

C11_ReportOrderFixed ==
    \A i \in Invocations :
        /\ (Phase1Succeeded(i) /\ outcome[i] = "returned") =>
              /\ ReturnedOneText(i)
              /\ CreationLinesInOrder(Report(i), i)
              /\ Report(i) = response_lines[i]
              /\ IF initial_buy_amount[i].n > 0
                 THEN /\ Len(Report(i)) = 10
                      /\ Report(i)[9] = [p |-> "", v |-> NoV]
                      /\ Report(i)[10].p \in BuyStatusFormats
                 ELSE Len(Report(i)) = 8
        /\ pc[i] \in {"create_buy_tx", "send_buy"} =>
              CreationLinesInOrder(response_lines[i], i) /\ Len(response_lines[i]) = 8

C11_Witness ==
    \E i \in Invocations :
        /\ outcome[i] = "returned"
        /\ \E k \in CallIndices(i) : IsSend(calls[i][k], "buy") /\ ReturnedTruthy(calls[i][k])
        /\ Len(Report(i)) = 10
        /\ Report(i)[10].p = "Initial buy succeeded: spent {} SOL"

(***************************************************************************)
(* C12.  An invocation with a required field that is a whitespace-only     *)
(* string calls no collaborator, and what it returns is the                 *)
(* missing-parameters error.  The code tests `not name` (line 122), and " " *)
(* is truthy.                                                              *)
(***************************************************************************)
WhitespaceOnly(v) == v.t = "str" /\ v.s # << >> /\ \A k \in 1 .. Len(v.s) : v.s[k] = " "

C12_WhitespaceCountsAsMissing ==
    \A i \in Invocations :
        (\E f \in RequiredFields : WhitespaceOnly(arguments[i][f])) =>
            /\ calls[i] = << >>
            /\ outcome[i] = "returned" =>
                  /\ SingleErrorLine(i)
                  /\ Report(i)[1].p =
                        "Error: Missing required parameters. Please provide name, symbol, description, and image_url."

(***************************************************************************)
(* C13.  A finished invocation whose initial_buy_amount or                  *)
(* minimum_token_out is a string that is not a number has returned one      *)
(* plain-text error item and has called no collaborator.  float() at lines  *)
(* 118-119 raises ValueError and nothing catches it.                        *)
(***************************************************************************)
Malformed(v) == v.t = "str" /\ v.s # << >> /\ ~AllDigits(v.s)

C13_MalformedAmountIsValidationError ==
    \A i \in Invocations :
        (Finished(i) /\ (\/ Malformed(arguments[i].initial_buy_amount)
                         \/ Malformed(arguments[i].minimum_token_out))) =>
            /\ SingleErrorLine(i)
            /\ calls[i] = << >>

(***************************************************************************)
(* C14.  Both amounts handed to create_buy_tx are >= 0.  The code passes    *)
(* minimum_token_out through as coerced (lines 119, 234); only             *)
(* initial_buy_amount is tested against 0 (line 228).                       *)
(***************************************************************************)
C14_AmountsNonNegative ==
    \A i \in Invocations : \A k \in CallsTo(i, "create_buy_tx") :
        /\ calls[i][k].a.amount_in.n >= 0
        /\ calls[i][k].a.minimum_amount_out.n >= 0

(***************************************************************************)
(* C15.  No retries: within one invocation prepare_ipfs, create_token,      *)
(* derive_pdas and create_buy_tx are each called at most once,              *)
(* send_and_confirm_transaction at most once for the creation and at most   *)
(* once for the buy, and after a call of a phase failed (raised or came     *)
(* back falsy) no collaborator of that phase is called again.               *)
(***************************************************************************)
PhaseOf(c) ==
    CASE c.fn = "prepare_ipfs" -> "metadata"
      [] c.fn \in {"create_token", "derive_pdas"} -> "creation"
      [] c.fn = "create_buy_tx" -> "buy"
      [] OTHER -> IF c.a.txn.op = "create" THEN "creation" ELSE "buy"

CreateSends(i) == {k \in CallIndices(i) : IsSend(calls[i][k], "create")}

C15_NoRetries ==
    \A i \in Invocations :
        /\ \A fn \in {"prepare_ipfs", "create_token", "derive_pdas", "create_buy_tx"} :
              Cardinality(CallsTo(i, fn)) <= 1
        /\ Cardinality(CreateSends(i)) <= 1
        /\ Cardinality(BuySends(i)) <= 1
        /\ Cardinality(CallsTo(i, "send_and_confirm_transaction")) <= 2
        /\ \A k \in CallIndices(i) :
              CallFailed(calls[i][k]) =>
                  \A j \in (k + 1) .. Len(calls[i]) : PhaseOf(calls[i][j]) # PhaseOf(calls[i][k])

C15_Witness ==
    \E i \in Invocations :
        /\ Finished(i)
        /\ Len(calls[i]) = 6
        /\ Cardinality(CallsTo(i, "send_and_confirm_transaction")) = 2
        /\ CallFailed(calls[i][6])

(***************************************************************************)
(* C16.  Under arbitrary interleaving of the invocations at their awaits:   *)
(* every buy attempt of an invocation targets the mint keypair that this    *)
(* invocation generated and passed to its own create_token, no other        *)
(* invocation holds that keypair, and the report an invocation returns is   *)
(* the function OwnReport of its own arguments, the read-only KEYPAIR and   *)
(* the outcomes of its own collaborator calls.                              *)
(***************************************************************************)
OwnCreationLines(a, h) ==
    << Line("Successfully launched token: {} ({})",
            [t |-> "name_symbol", name |-> a.name, symbol |-> a.symbol]),
       Line("", NoV),
       Line("Mint Address: {}", Pubkey(h[2].a.mint_keypair)),
       Line("Pool State: {}", h[4].r.ret.pool_state),
       Line("Token URI: {}", h[1].r.ret),
       Line("Image URL: {}", a.image_url),
       Line("", NoV),
       Line("Funded from account: {}", Pubkey(h[2].a.payer_keypair)) >>

OwnBuyStatus(a, last) ==
    IF ThrewIn(last) THEN Line("Token launched, but initial buy failed: {}", last.r.exc.msg)
    ELSE IF last.fn = "send_and_confirm_transaction" /\ Truthy(last.r.ret)
    THEN Line("Initial buy succeeded: spent {} SOL", Num(CoerceAmount(a, "initial_buy_amount").n))
    ELSE Line("Token launched, but initial buy failed.", NoV)

OwnReport(a, h) ==
    IF h = << >>
    THEN IF FieldMissing(a)
         THEN << Line("Error: Missing required parameters. Please provide name, symbol, description, and image_url.", NoV) >>
         ELSE IF KEYPAIR \in {NoneV, Str(<< >>)}
         THEN << Line("Error: No keypair configured in settings. Please set the KEYPAIR environment variable.", NoV) >>
         ELSE << Line("Error: Invalid keypair format. {}",
                      IF KEYPAIR = Str(<<"0">>) THEN BuiltinMsg("Invalid character")
                      ELSE BuiltinMsg("signature error")) >>
    ELSE LET last == h[Len(h)]
         IN  CASE last.fn = "prepare_ipfs" ->
                    IF ThrewIn(last)
                    THEN << Line("Error: Failed to prepare IPFS metadata. {}", last.r.exc.msg) >>
                    ELSE << Line("Error: Failed to prepare IPFS metadata. Please check your image URL and try again.", NoV) >>
               [] last.fn = "create_token" -> << Line("Error launching token: {}", last.r.exc.msg) >>
               [] IsSend(last, "create") ->
                    IF ThrewIn(last) THEN << Line("Error launching token: {}", last.r.exc.msg) >>
                    ELSE << Line("Error: Token creation failed.", NoV) >>
               [] last.fn = "derive_pdas" -> OwnCreationLines(a, h)
               [] OTHER -> OwnCreationLines(a, h) \o << Line("", NoV), OwnBuyStatus(a, last) >>

C16_InvocationsIndependent ==
    \A i \in Invocations :
        /\ \A k \in CallIndices(i) :
              /\ IsBuyAttempt(calls[i][k]) => BuyMint(calls[i][k]) = Pubkey(mint_keypair[i])
              /\ calls[i][k].fn = "create_token" =>
                    calls[i][k].a.mint_keypair = mint_keypair[i]
        /\ \A j \in Invocations \ {i} :
              mint_keypair[i] # Unset => mint_keypair[j] # mint_keypair[i]
        /\ outcome[i] = "returned" =>
              /\ ReturnedOneText(i)
              /\ Report(i) = OwnReport(arguments[i], calls[i])

C16_Witness ==
    \E i \in Invocations : \E j \in Invocations \ {i} :
        /\ \E k \in CallIndices(i) : IsSend(calls[i][k], "buy")
        /\ pc[i] = "done" /\ pc[j] = "send_create"
        /\ Len(calls[j]) = 2

(***************************************************************************)
(* C17.  Invocations with identical input fields use distinct asset         *)
(* identities: every invocation that reaches identity preparation holds one *)
(* freshly generated mint keypair (exactly one Keypair() per such           *)
(* invocation), the keypair is none of the input values and none of the     *)
(* keypairs of another invocation, and no mint keypair is passed to         *)
(* create_token by two invocations.                                         *)
(***************************************************************************)
ReachedIdentity(i) == mint_keypair[i] # Unset
InputValues(i) == {arguments[i][f] : f \in DOMAIN arguments[i]}

C17_FreshMintPerInvocation ==
    /\ keysGenerated = Cardinality({i \in Invocations : ReachedIdentity(i)})
    /\ \A i \in Invocations :
          /\ (pc[i] \notin {"off", "start", "done"}) => ReachedIdentity(i)
          /\ ReachedIdentity(i) =>
                /\ mint_keypair[i] \notin InputValues(i)
                /\ mint_keypair[i] # payer_keypair[i]
                /\ \A j \in Invocations \ {i} : mint_keypair[j] # mint_keypair[i]
          /\ \A j \in Invocations \ {i} :
                \A k \in CallsTo(i, "create_token") : \A l \in CallsTo(j, "create_token") :
                    calls[i][k].a.mint_keypair # calls[j][l].a.mint_keypair

C17_Witness ==
    \E i \in Invocations : \E j \in Invocations \ {i} :
        /\ arguments[i] = arguments[j]
        /\ CallsTo(i, "create_token") # {}
        /\ CallsTo(j, "create_token") # {}

(***************************************************************************)
(* C18.  The two kinds of buy failure are reported distinctly.  When        *)
(* create_buy_tx or the buy submission raised, the buy-status line is       *)
(* "Token launched, but initial buy failed: <message of that exception>";   *)
(* when the buy submission returned a falsy confirmation it is the plain    *)
(* "Token launched, but initial buy failed."; when the confirmation was     *)
(* truthy the report has neither line.                                     *)
(***************************************************************************)
LastCall(i) == calls[i][Len(calls[i])]

C18_BuyFailuresDistinct ==
    \A i \in Invocations :
        (calls[i] # << >> /\ IsBuyAttempt(LastCall(i)) /\ Finished(i)) =>
            /\ ReturnedOneText(i)
            /\ Len(Report(i)) = 10
            /\ IF ThrewIn(LastCall(i))
               THEN /\ Report(i)[10].p = "Token launched, but initial buy failed: {}"
                    /\ Report(i)[10].v = LastCall(i).r.exc.msg
                    /\ Report(i)[10].v \in Msgs
               ELSE IF Truthy(LastCall(i).r.ret)
               THEN /\ \A k \in DOMAIN Report(i) : Report(i)[k].p \notin BuyFailureFormats
                    /\ Report(i)[10].p = "Initial buy succeeded: spent {} SOL"
               ELSE /\ Report(i)[10] = [p |-> "Token launched, but initial buy failed.", v |-> NoV]
                    /\ LastCall(i).fn = "send_and_confirm_transaction"

C18_Witness ==
    \E i \in Invocations :
        /\ Finished(i)
        /\ calls[i] # << >>
        /\ IsSend(LastCall(i), "buy")
        /\ ~ThrewIn(LastCall(i))
        /\ LastCall(i).r.ret = Bool(FALSE)

(***************************************************************************)
(* C19.  The error an invocation returns is the one of the earliest         *)
(* failing stage in the order required fields, missing KEYPAIR, undecodable *)
(* KEYPAIR, metadata, creation, and no collaborator of a later stage has    *)
(* been called by then.                                                    *)
(***************************************************************************)
Undecodable(k) == k \in {Str(<<"0">>), Str(<<"k">>)}

C19_EarliestFailureReported ==
    \A i \in Invocations :
        (Finished(i) /\ outcome[i] = "returned") =>
            /\ ReturnedOneText(i)
            /\ IF FieldMissing(arguments[i])
               THEN /\ Report(i) = << [p |-> "Error: Missing required parameters. Please provide name, symbol, description, and image_url.", v |-> NoV] >>
                    /\ calls[i] = << >>
               ELSE IF KEYPAIR \in {NoneV, Str(<< >>)}
               THEN /\ Report(i) = << [p |-> "Error: No keypair configured in settings. Please set the KEYPAIR environment variable.", v |-> NoV] >>
                    /\ calls[i] = << >>
               ELSE IF Undecodable(KEYPAIR)
               THEN /\ Len(Report(i)) = 1
                    /\ Report(i)[1].p = "Error: Invalid keypair format. {}"
                    /\ calls[i] = << >>
               ELSE IF MetadataFailed(i)
               THEN /\ Len(Report(i)) = 1
                    /\ Report(i)[1].p \in
                          {"Error: Failed to prepare IPFS metadata. {}",
                           "Error: Failed to prepare IPFS metadata. Please check your image URL and try again."}
                    /\ \A k \in CallIndices(i) : calls[i][k].fn = "prepare_ipfs"
               ELSE IF Phase1Failed(i)
               THEN /\ Len(Report(i)) = 1
                    /\ Report(i)[1].p \in {"Error launching token: {}", "Error: Token creation failed."}
                    /\ \A k \in CallIndices(i) :
                          calls[i][k].fn \notin {"derive_pdas", "create_buy_tx"}
                          /\ ~IsSend(calls[i][k], "buy")
               ELSE Report(i)[1].p = "Successfully launched token: {} ({})"

C19_Witness ==
    \E i \in Invocations :
        /\ Finished(i)
        /\ outcome[i] = "returned"
        /\ arguments[i].symbol = Absent
        /\ arguments[i].name = Str(<<"F">>)
        /\ KEYPAIR = NoneV
        /\ Report(i)[1].p =
              "Error: Missing required parameters. Please provide name, symbol, description, and image_url."

(***************************************************************************)
(* C20.  Provided every collaborator call returns or raises, every          *)
(* invocation reaches a final state (a returned response or a raised        *)
(* exception) and stays there, after at most six collaborator calls, made   *)
(* in the fixed order prepare_ipfs, create_token, creation send, derive_pdas,*)
(* create_buy_tx, buy send, none of them made twice.                        *)
(***************************************************************************)
StageOrder ==
    <<"prepare_ipfs", "create_token", "send_create", "derive_pdas", "create_buy_tx", "send_buy">>

StageOfCall(c) ==
    IF c.fn = "send_and_confirm_transaction"
    THEN (IF c.a.txn.op = "create" THEN "send_create" ELSE "send_buy")
    ELSE c.fn

CallsFollowStageOrder(i) ==
    /\ Len(calls[i]) <= Len(StageOrder)
    /\ \A k \in CallIndices(i) : StageOfCall(calls[i][k]) = StageOrder[k]

FinalState(i) == Finished(i) /\ outcome[i] \in {"returned", "raised"}

C20_Terminates ==
    /\ [](\A i \in Invocations : CallsFollowStageOrder(i))
    /\ <>[](\A i \in Invocations : pc[i] # "off" => FinalState(i))

C20_Witness ==
    \E i \in Invocations :
        /\ FinalState(i)
        /\ Len(calls[i]) = 6
        /\ IsSend(calls[i][6], "buy")

====
